---- MODULE Spec2Model ----
(***************************************************************************)
(* A model of the point generators of include/泊松生成器.h (PoissonGenerator *)
(* 1.6.1): DefaultPRNG, the acceleration grid, generatePoissonPoints        *)
(* (生成泊松点集), generateVogelPoints (生成Vogel点集) and                      *)
(* generateHammersleyPoints (生成Hammersley点集).                             *)
(*                                                                         *)
(* The source's identifiers are Chinese; TLA+ identifiers are ASCII, so    *)
(* each definition carries the name the upstream library gives the same    *)
(* symbol, and the comment above it names the source symbol.               *)
(*                                                                         *)
(* Arithmetic.  uint32_t values are pairs <<hi, lo>> of 16-bit halves, so   *)
(* that products are reduced modulo 2^32 as the hardware does.  A float     *)
(* coordinate is an integer count of 1/unit: unit = GridRes for the         *)
(* Poisson sampler (the 24-bit mantissa is cut down to a coarse lattice)    *)
(* and unit = VogelUnit for the Vogel sampler.  Distances, the minimum      *)
(* distance and the cell size are kept as squares of rationals, so every    *)
(* comparison the code makes (d < minDistance, x / cellSize truncated,      *)
(* ceil(1 / cellSize)) is decided exactly, as in real arithmetic; the       *)
(* rounding of the individual float operations is not modelled.            *)
(***************************************************************************)
EXTENDS Integers, Sequences, FiniteSets, TLC

(***************************************************************************)
(* Bounds of the model.                                                    *)
(***************************************************************************)
\* Lattice resolution of the Poisson sampler: coordinates are k / GridRes.
GridRes == 2
\* Largest 新增点数量 (newPointsCount, Bridson's k) explored.
MaxNewPoints == 2
\* Largest small 点数量 (pointCount) explored, besides the wrapping ones.
MaxPointCount == 2

(***************************************************************************)
(* State: one call of each generator.                                      *)
(***************************************************************************)
\* generatePoissonPoints
VARIABLES
  pc,             \* where the call stands
  requested,      \* 点数量 as the caller passed it (uint32_t)
  pointCount,     \* 点数量: the argument, then the internal target (uint32_t)
  isCircle,       \* 是圆形
  newPointsCount, \* 新增点数量
  minDistance,    \* 最小距离: sign and square, -1.0f is [neg TRUE, 1 / 1]
  cellSize,       \* 单格尺寸, as its square
  grid,           \* 网格值
  samplePoints,   \* 采样点集
  processList,    \* 待处理列表
  prng,           \* 随机数生成器.seed_
  firstPoint,     \* 首个点
  currentPoint,   \* 当前点
  i               \* the for loop's counter

pvars == <<pc, requested, pointCount, isCircle, newPointsCount, minDistance, cellSize,
           grid, samplePoints, processList, prng, firstPoint, currentPoint, i>>

\* generateVogelPoints
VARIABLES
  vpc,        \* where the call stands
  vCount,     \* 点数量 (uint32_t)
  vIsCircle,  \* 是圆形
  vPoints,    \* 采样点集
  vI          \* the loop's counter

vvars == <<vpc, vCount, vIsCircle, vPoints, vI>>

\* generateHammersleyPoints
VARIABLES
  hpc,       \* where the call stands
  hCount,    \* 点数量
  hPoints,   \* 采样点集
  hI,        \* the loop's counter
  hBits,     \* an argument of radicalInverse_VdC
  hReversed, \* bits after line 342, once computed
  hInverse   \* the value radicalInverse_VdC returns for it, once computed

hvars == <<hpc, hCount, hPoints, hI, hBits, hReversed, hInverse>>

vars == <<pvars, vvars, hvars>>

(***************************************************************************)
(* uint32_t                                                                *)
(***************************************************************************)
TwoTo16 == 2^16

U32(n) == <<n \div TwoTo16, n % TwoTo16>>

\* The value of a uint32_t below 2^31 as an integer.
ToInt(u) == u[1] * TwoTo16 + u[2]

\* u * k modulo 2^32 for a constant k < 2^24, by the bytes of k.
MulMod32(u, k) ==
  LET k0 == k % 256
      k1 == (k \div 256) % 256
      k2 == k \div TwoTo16
      A == u[2] * k0
      B == u[2] * k1
      C == u[2] * k2
      sumLow == A + 256 * (B % 256)
      carry == (sumLow \div TwoTo16) + (B \div 256) + C
  IN  << (carry + u[1] * k0 + 256 * ((u[1] * k1) % 256)) % TwoTo16,
         sumLow % TwoTo16 >>

(***************************************************************************)
(* DefaultPRNG                                                             *)
(***************************************************************************)
\* uint32_t seed_ = 7133167
DefaultSeed == 7133167
\* seed_ *= 521167
Multiplier == 521167
\* The float built from (seed_ & 0x007fffff) | 0x40000000 is 2 + 2 * m / 2^23
\* for the 23-bit mantissa m, so randomFloat returns m / 2^23.
MantissaBits == 23
MantissaRange == 2^MantissaBits

\* DefaultPRNG::randomFloat, the state after the call.
NextSeed(s) == MulMod32(s, Multiplier)

\* DefaultPRNG::randomFloat, the value returned by the call that leaves the
\* state s: the numerator m of m / 2^23.
FloatOf(s) == (s[1] % 128) * TwoTo16 + s[2]

\* uint32_t(randomFloat() * maxInt) for the float m / 2^23.
ScaleToInt(m, maxInt) == (m * maxInt) \div MantissaRange

\* DefaultPRNG::randomInt(maxInt): [state after, value].
randomInt(s, maxInt) ==
  LET s1 == NextSeed(s)
  IN  [seed |-> s1, value |-> ScaleToInt(FloatOf(s1), maxInt)]

(***************************************************************************)
(* 点 (Point), 网格点 (GridPoint)                                            *)
(***************************************************************************)
\* 点(X, Y): 是有效的 (valid) = true
Point(X, Y) == [x |-> X, y |-> Y, valid |-> TRUE]

\* 点(): x = y = 0, 是有效的 = false
InvalidPoint == [x |-> 0, y |-> 0, valid |-> FALSE]

\* 点::要是在矩形内 (isInRectangle): 0 <= x <= 1 and 0 <= y <= 1.
isInRectangle(p, unit) ==
  p.x >= 0 /\ p.y >= 0 /\ p.x <= unit /\ p.y <= unit

\* 点::要是在圆形内 (isInCircle): (x - 0.5)^2 + (y - 0.5)^2 <= 0.25,
\* multiplied through by (2 * unit)^2.
isInCircle(p, unit) ==
  (2 * p.x - unit) * (2 * p.x - unit) + (2 * p.y - unit) * (2 * p.y - unit)
    <= unit * unit

\* 获取距离 (getDistance), squared, in lattice units.
DistanceSq(p, q) == (p.x - q.x) * (p.x - q.x) + (p.y - q.y) * (p.y - q.y)

\* 获取距离(P, p) < 最小距离, for the minimum distance sqrt(md.num / md.den).
CloserThan(p, q, md) == DistanceSq(p, q) * md.den < md.num * GridRes * GridRes

\* (int)(v / cellSize) for a coordinate v >= 0 and the cell size
\* sqrt(cell.num / cell.den): the largest g with g * cellSize <= v / GridRes.
RECURSIVE TruncDivFrom(_, _, _)
TruncDivFrom(g, v, cell) ==
  IF (g + 1) * (g + 1) * cell.num * GridRes * GridRes <= cell.den * v * v
    THEN TruncDivFrom(g + 1, v, cell)
    ELSE g

\* The cast truncates toward zero.
TruncDiv(v, cell) ==
  IF v >= 0 THEN TruncDivFrom(0, v, cell) ELSE 0 - TruncDivFrom(0, 0 - v, cell)

\* 图像到网格 (imageToGrid)
imageToGrid(p, cell) == [x |-> TruncDiv(p.x, cell), y |-> TruncDiv(p.y, cell)]

\* (int)ceil(1.0f / cellSize): the least w with w * cellSize >= 1.
RECURSIVE CeilInvFrom(_, _)
CeilInvFrom(w, cell) ==
  IF w * w * cell.num >= cell.den THEN w ELSE CeilInvFrom(w + 1, cell)

CeilInv(cell) == CeilInvFrom(0, cell)

(***************************************************************************)
(* 网格 (Grid)                                                              *)
(***************************************************************************)
\* const int D = 5: the scan reaches D cells each way.
D == 5

\* 网格(宽, 高, 单格): 高 rows of 宽 invalid points.
Grid(w, h, cell) ==
  [width |-> w, height |-> h, cell |-> cell,
   cells |-> [a \in 0..(h - 1) |-> [b \in 0..(w - 1) |-> InvalidPoint]]]

\* Whether 网格_[g.x][g.y] is an element of the vectors: the outer vector has
\* 高_ elements and each inner one 宽 elements.
InsertInRange(G, p) ==
  LET g == imageToGrid(p, G.cell)
  IN  g.x >= 0 /\ g.x < G.height /\ g.y >= 0 /\ g.y < G.width

\* 网格::要插入 (insert), for an index inside the vectors.
insert(G, p) ==
  LET g == imageToGrid(p, G.cell)
  IN  [G EXCEPT !.cells[g.x][g.y] = p]

\* 网格::要插入 with operator[] unchecked.  An index outside the vectors is
\* undefined behaviour: the store lands outside every cell the scan reads
\* and the run goes on, or the process dies.
InsertOutcomes(G, p) ==
  IF InsertInRange(G, p)
    THEN {[grid |-> insert(G, p), crashed |-> FALSE]}
    ELSE {[grid |-> G, crashed |-> FALSE], [grid |-> G, crashed |-> TRUE]}

\* 网格::要是在邻近区域内 (isInNeighbourhood)
isInNeighbourhood(G, p, md, cell) ==
  LET g == imageToGrid(p, cell)
  IN  \E a \in (g.x - D)..(g.x + D), b \in (g.y - D)..(g.y + D) :
        /\ a >= 0 /\ a < G.width /\ b >= 0 /\ b < G.height
        /\ G.cells[a][b].valid
        /\ CloserThan(G.cells[a][b], p, md)

(***************************************************************************)
(* 生成泊松点集 (generatePoissonPoints)                                       *)
(***************************************************************************)
\* const double Pi_4 = 0.785398163397448309616, to seven places.
Pi4Num == 7853981
Pi4Den == 10000000

\* static_cast<int>(Pi_4 * 点数量)
ScaleByPi4(n) == (n * Pi4Num) \div Pi4Den

\* Target with the test of line 198 inverted: the circle's target is scaled.
TargetCircleScaled(count, circle) ==
  LET doubled == MulMod32(count, 2)
  IN  IF circle THEN U32(ScaleByPi4(ToInt(doubled))) ELSE doubled

\* Lines 195-201: the internal target.
Target(count, circle) ==
  LET doubled == MulMod32(count, 2)
  IN  IF ~circle THEN U32(ScaleByPi4(ToInt(doubled))) ELSE doubled

\* Lines 203-205: sqrt(float(点数量)) / float(点数量) when the argument is
\* negative.
EffectiveMinDistance(md, n) ==
  IF md.neg THEN [neg |-> FALSE, num |-> n, den |-> n * n] ELSE md

\* Line 214: 最小距离 / sqrt(2.0f)
CellSizeOf(md) == [num |-> md.num, den |-> 2 * md.den]

\* The arguments explored.
PointCounts ==
  {U32(n) : n \in 0..MaxPointCount} \cup {<<2^15, 0>>, <<2^15, 1>>}

MinDistances ==
  {[neg |-> TRUE, num |-> 1, den |-> 1], [neg |-> FALSE, num |-> 1, den |-> 2]}

\* The generator's seed: the default, 0, 3, and 2^23 (mantissa bits all 0).
Seeds == {U32(DefaultSeed), U32(0), U32(3), <<2^7, 0>>}

EmptyGrid == Grid(0, 0, [num |-> 0, den |-> 1])

PoissonInit ==
  /\ pc = "entry"
  /\ requested \in PointCounts
  /\ pointCount = requested
  /\ isCircle \in BOOLEAN
  /\ newPointsCount \in 0..MaxNewPoints
  /\ minDistance \in MinDistances
  /\ prng \in Seeds
  /\ cellSize = [num |-> 0, den |-> 1]
  /\ grid = EmptyGrid
  /\ samplePoints = <<>>
  /\ processList = <<>>
  /\ firstPoint = InvalidPoint
  /\ currentPoint = InvalidPoint
  /\ i = 0

\* Lines 195-219: the target, the default distance, the early return, the grid.
Enter ==
  /\ UNCHANGED <<vvars, hvars>>
  /\ pc = "entry"
  /\ LET target == Target(pointCount, isCircle)
         md == EffectiveMinDistance(minDistance, ToInt(target))
         cell == CellSizeOf(md)
     IN  /\ pointCount' = target
         /\ minDistance' = md
         /\ IF ToInt(target) = 0
              THEN /\ pc' = "done"
                   /\ UNCHANGED <<cellSize, grid>>
              ELSE /\ pc' = "seed"
                   /\ cellSize' = cell
                   /\ grid' = Grid(CeilInv(cell), CeilInv(cell), cell)
  /\ UNCHANGED <<requested, isCircle, newPointsCount, samplePoints,
                 processList, prng, firstPoint, currentPoint, i>>

\* The float m / 2^23 as a lattice coordinate.
ToLattice(m) == (m * GridRes) \div MantissaRange

\* 是圆形 ? p.要是在圆形内() : p.要是在矩形内()
InRegion(p, circle) ==
  IF circle THEN isInCircle(p, GridRes) ELSE isInRectangle(p, GridRes)

\* Line 223: the body of the do-while loop draws 首个点.
DrawFirstPoint ==
  /\ UNCHANGED <<vvars, hvars>>
  /\ pc = "seed"
  /\ LET s1 == NextSeed(prng)
         s2 == NextSeed(s1)
     IN  /\ prng' = s2
         /\ firstPoint' = Point(ToLattice(FloatOf(s1)), ToLattice(FloatOf(s2)))
  /\ pc' = "seedtest"
  /\ UNCHANGED <<requested, pointCount, isCircle, newPointsCount,
                 minDistance, cellSize, grid, samplePoints, processList,
                 currentPoint, i>>

\* Lines 224-229: the do-while loop's test; a point outside the region is
\* drawn again, a point inside is pushed to both lists and inserted.
TestFirstPoint ==
  /\ UNCHANGED <<vvars, hvars>>
  /\ pc = "seedtest"
  /\ IF InRegion(firstPoint, isCircle)
       THEN /\ processList' = Append(processList, firstPoint)
            /\ samplePoints' = Append(samplePoints, firstPoint)
            /\ \E o \in InsertOutcomes(grid, firstPoint) :
                 /\ grid' = o.grid
                 /\ pc' = IF o.crashed THEN "crashed" ELSE "loop"
       ELSE /\ pc' = "seed"
            /\ UNCHANGED <<processList, samplePoints, grid>>
  /\ UNCHANGED <<requested, pointCount, isCircle, newPointsCount,
                 minDistance, cellSize, prng, firstPoint, currentPoint, i>>

\* Line 236: the while loop's condition.
LoopCondition ==
  processList # <<>> /\ Len(samplePoints) <= ToInt(pointCount)

\* Line 161: the argument 随机取出 hands to randomInt.
PopBound(n) == n - 1

\* Erase that removes nothing.
EraseNothing(list, index) == list

\* The sequence without its element at the 0-based index.
Erase(list, index) ==
  [k \in 1..(Len(list) - 1) |-> IF k <= index THEN list[k] ELSE list[k + 1]]

\* 随机取出 (popRandom): [state after, point, list after].
popRandom(list, s) ==
  LET r == randomInt(s, PopBound(Len(list)))
  IN  [seed |-> r.seed, point |-> list[r.value + 1],
       list |-> Erase(list, r.value)]

\* Lines 236 and 248: the loop is entered and a point leaves the list.
PopStep ==
  /\ UNCHANGED <<vvars, hvars>>
  /\ pc = "loop"
  /\ LoopCondition
  /\ LET r == popRandom(processList, prng)
     IN  /\ prng' = r.seed
         /\ currentPoint' = r.point
         /\ processList' = r.list
  /\ i' = 0
  /\ pc' = "spawn"
  /\ UNCHANGED <<requested, pointCount, isCircle, newPointsCount,
                 minDistance, cellSize,
                 grid, samplePoints, firstPoint>>

\* How far outside the unit square a candidate is followed.
Margin == 1

\* Whether sqrt(md.num / md.den) <= |q - center| < 2 * sqrt(md.num / md.den).
InAnnulus(center, q, md) ==
  /\ DistanceSq(center, q) * md.den >= md.num * GridRes * GridRes
  /\ DistanceSq(center, q) * md.den < 4 * md.num * GridRes * GridRes

\* 在周围生成随机点 (generateRandomPointAround): radius = 最小距离 * (R1 + 1)
\* with R1 in [0, 1), angle = 2 * pi * R2.  The cosine and sine are not
\* computed: every lattice point of the annulus is a possible result.
generateRandomPointAround(center, md) ==
  {q \in {Point(X, Y) : X \in (0 - Margin)..(GridRes + Margin),
                        Y \in (0 - Margin)..(GridRes + Margin)} :
     InAnnulus(center, q, md)}

\* The for loop's test off by one.
ForConditionInclusive == i <= newPointsCount

\* Line 250: i < 新增点数量
ForCondition == i < newPointsCount

\* Line 254: 是可放置点 && !网格值.要是在邻近区域内(新点, 最小距离, 单格尺寸)
Accepted(q) ==
  InRegion(q, isCircle) /\ ~isInNeighbourhood(grid, q, minDistance, cellSize)

\* Lines 250-260: one pass of the for loop.  Two floats are drawn for the
\* candidate, which is pushed and inserted when it is accepted.
SpawnStep ==
  /\ UNCHANGED <<vvars, hvars>>
  /\ pc = "spawn"
  /\ ForCondition
  /\ prng' = NextSeed(NextSeed(prng))
  /\ i' = i + 1
  /\ \E q \in generateRandomPointAround(currentPoint, minDistance) :
       IF Accepted(q)
         THEN /\ processList' = Append(processList, q)
              /\ samplePoints' = Append(samplePoints, q)
              /\ \E o \in InsertOutcomes(grid, q) :
                   /\ grid' = o.grid
                   /\ pc' = IF o.crashed THEN "crashed" ELSE "spawn"
         ELSE UNCHANGED <<processList, samplePoints, grid, pc>>
  /\ UNCHANGED <<requested, pointCount, isCircle, newPointsCount,
                 minDistance, cellSize,
                 firstPoint, currentPoint>>

\* Line 250: the for loop ends and the while loop's condition is next.
SpawnDone ==
  /\ UNCHANGED <<vvars, hvars>>
  /\ pc = "spawn"
  /\ ~ForCondition
  /\ pc' = "loop"
  /\ UNCHANGED <<requested, pointCount, isCircle, newPointsCount,
                 minDistance, cellSize,
                 grid, samplePoints, processList, prng, firstPoint,
                 currentPoint, i>>

\* Lines 236 and 267: the while loop ends and 采样点集 is returned.
Return ==
  /\ UNCHANGED <<vvars, hvars>>
  /\ pc = "loop"
  /\ ~LoopCondition
  /\ pc' = "done"
  /\ UNCHANGED <<requested, pointCount, isCircle, newPointsCount,
                 minDistance, cellSize,
                 grid, samplePoints, processList, prng, firstPoint,
                 currentPoint, i>>

PoissonNext ==
  \/ Enter
  \/ DrawFirstPoint
  \/ TestFirstPoint
  \/ PopStep
  \/ SpawnStep
  \/ SpawnDone
  \/ Return

(***************************************************************************)
(* 生成Vogel点集 (generateVogelPoints)                                        *)
(*                                                                         *)
(* Coordinates are counts of 1 / VogelUnit.  The angle argument is the      *)
(* default 0 and the centre the default (0.5, 0.5).                         *)
(***************************************************************************)
\* Largest small 点数量 explored, and the passes followed of a longer loop.
MaxVogelCount == 8

\* Three decimal places, the precision of CosTable and SinTable.
VogelUnit == 10^3

\* sqrtf of a value below 1, both in units: the largest r with r * r <= v.
Isqrt(v) == CHOOSE r \in 0..VogelUnit : r * r <= v /\ v < (r + 1) * (r + 1)

\* cosf(索引 * 黄金角) and sinf(索引 * 黄金角) for 黄金角 = 2.4f and
\* 索引 = 0, 1, ..., in thousandths.
CosTable ==
  <<1000, -737, 87, 608, -985, 844, -260, -461,
    939, -924, 424, 299, -865, 977, -576, -128>>

SinTable ==
  <<0, 675, -996, 794, -174, -537, 966, -888,
    343, 381, -906, 954, -502, -214, 818, -992>>

\* A point with an infinite or NaN coordinate.
NonFinitePoint == [x |-> 0, y |-> 0, valid |-> TRUE, nonfinite |-> TRUE]

IsFinite(p) == "nonfinite" \notin DOMAIN p

\* 点::operator+
PointPlus(p, q) ==
  IF ~IsFinite(p) \/ ~IsFinite(q)
    THEN NonFinitePoint
    ELSE Point(p.x + q.x, p.y + q.y)

\* 采样Vogel盘 (sampleVogelDisk) for 角度 = 0:
\* 半径 = sqrtf(索引 + 0.5f) / sqrtf(点数量); a 点数量 of 0 divides by zero,
\* the radius is +inf and the products are inf or NaN.
sampleVogelDisk(index, count) ==
  IF count = 0
    THEN NonFinitePoint
    ELSE LET radius ==
               Isqrt((((2 * index + 1) * VogelUnit * VogelUnit) \div 2) \div count)
         IN  Point((radius * CosTable[index + 1]) \div VogelUnit,
                   (radius * SinTable[index + 1]) \div VogelUnit)

\* The sample count with the oversampling of the circle left out.
SampleCountPlain(count, circle) == count

\* Line 287: 是圆形 ? 4 * 点数量 : 点数量, in uint32_t.
SampleCount(count, circle) == IF circle THEN MulMod32(count, 4) ELSE count

\* 点(0.5f, 0.5f)
VogelCenter == Point(VogelUnit \div 2, VogelUnit \div 2)

\* The comparisons of the predicates are false of NaN, and x <= 1 and the
\* circle's test are false of +inf.
InRectangleV(p) == IsFinite(p) /\ isInRectangle(p, VogelUnit)

InCircleV(p) == IsFinite(p) /\ isInCircle(p, VogelUnit)

\* The counts explored: the small ones, and 2^30, where 4 * 点数量 wraps.
VogelCounts == {U32(n) : n \in 0..MaxVogelCount} \cup {<<2^14, 0>>}

VogelInit ==
  /\ vpc = "loop"
  /\ vCount \in VogelCounts
  /\ vIsCircle \in BOOLEAN
  /\ vPoints = <<>>
  /\ vI = 0

\* Lines 289-292: one pass of the loop.
VogelStep ==
  /\ UNCHANGED <<pvars, hvars>>
  /\ vpc = "loop"
  /\ vI # ToInt(vCount)
  /\ vI < MaxVogelCount
  /\ vPoints' =
       Append(vPoints,
              PointPlus(sampleVogelDisk(vI, ToInt(SampleCount(vCount, vIsCircle))),
                        VogelCenter))
  /\ vI' = vI + 1
  /\ UNCHANGED <<vpc, vCount, vIsCircle>>

\* Line 294: the loop ends and 采样点集 is returned.
VogelReturn ==
  /\ UNCHANGED <<pvars, hvars>>
  /\ vpc = "loop"
  /\ vI = ToInt(vCount)
  /\ vpc' = "done"
  /\ UNCHANGED <<vCount, vIsCircle, vPoints, vI>>

VogelNext == VogelStep \/ VogelReturn

VogelIdle ==
  /\ vpc = "idle"
  /\ vCount = U32(0)
  /\ vIsCircle = FALSE
  /\ vPoints = <<>>
  /\ vI = 0

(***************************************************************************)
(* 生成Hammersley点集 (generateHammersleyPoints)                              *)
(*                                                                         *)
(* A point's x is the pair <<i, N>> for float(i) / float(N), and its y the  *)
(* uint32_t numerator of a fraction over 2^32.                              *)
(***************************************************************************)
\* Largest 点数量 explored.
MaxHammersleyCount == 5

\* a & b
RECURSIVE BitAnd(_, _)
BitAnd(a, b) ==
  IF a = 0 \/ b = 0
    THEN 0
    ELSE (a % 2) * (b % 2) + 2 * BitAnd(a \div 2, b \div 2)

\* The step of line 339 with the mask 0x55555555 mistyped as 0x55555554.
SwapStepBadMask(h, mask, shift) ==
  BitAnd(h, IF shift = 1 THEN mask - 1 ELSE mask) * 2^shift
    + BitAnd(h, mask * 2^shift) \div 2^shift

\* ((h & mask) << shift) | ((h & (mask << shift)) >> shift) in one 16-bit
\* half: the masks of lines 339-342 repeat in both halves and no bit
\* crosses from one half to the other.
SwapStep(h, mask, shift) ==
  BitAnd(h, mask) * 2^shift + BitAnd(h, mask * 2^shift) \div 2^shift

\* Lines 339-342 on one half: 0x5555 << 1, 0x3333 << 2, 0x0F0F << 4,
\* 0x00FF << 8.
SwapHalf(h) ==
  SwapStep(SwapStep(SwapStep(SwapStep(h, 21845, 1), 13107, 2), 3855, 4), 255, 8)

\* Lines 338-342: the five swaps; line 338 exchanges the halves.
ReverseBits(bits) == <<SwapHalf(bits[2]), SwapHalf(bits[1])>>

\* The number of bits of n.
RECURSIVE BitLength(_)
BitLength(n) == IF n = 0 THEN 0 ELSE 1 + BitLength(n \div 2)

\* float(bits): the nearest value with 24 significant bits, ties to even.
\* The result may be 2^32, <<2^16, 0>>.
ToFloat(bits) ==
  IF bits[1] < 256
    THEN bits
    ELSE LET drop == BitLength(bits[1]) - 8
             q == bits[2] \div 2^drop
             r == bits[2] % 2^drop
             half == 2^(drop - 1)
             up == IF r > half \/ (r = half /\ q % 2 = 1) THEN 1 ELSE 0
             lo == (q + up) * 2^drop
         IN  IF lo = TwoTo16 THEN <<bits[1] + 1, 0>> ELSE <<bits[1], lo>>

\* radicalInverse_VdC: float(bits) * 2^-32, as the numerator over 2^32.
radicalInverse_VdC(bits) == ToFloat(ReverseBits(bits))

\* hammersley2d
hammersley2d(index, N) ==
  [x |-> <<index, N>>, y |-> radicalInverse_VdC(U32(index)), valid |-> TRUE]

\* The 32-bit inputs explored: each single bit, none, all, the alternating
\* patterns and the generator's default seed.
ProbeBits ==
  {<<2^a, 0>> : a \in 0..15} \cup {<<0, 2^a>> : a \in 0..15}
    \cup {<<0, 0>>, <<TwoTo16 - 1, TwoTo16 - 1>>, <<43690, 43690>>,
          <<21845, 21845>>, <<1, 1>>, <<256, 1>>, U32(DefaultSeed)}

NotComputed == <<>>

HammersleyInit ==
  /\ hpc = "loop"
  /\ hCount \in 0..MaxHammersleyCount
  /\ hPoints = <<>>
  /\ hI = 0
  /\ hBits \in ProbeBits
  /\ hReversed = NotComputed
  /\ hInverse = NotComputed

\* Lines 362-366: one pass of the loop.
HammersleyStep ==
  /\ UNCHANGED <<pvars, vvars>>
  /\ hpc = "loop"
  /\ hI # hCount
  /\ hPoints' = Append(hPoints, hammersley2d(hI, hCount))
  /\ hI' = hI + 1
  /\ UNCHANGED <<hpc, hCount, hBits, hReversed, hInverse>>

\* Line 367: the loop ends and 采样点集 is returned.
HammersleyReturn ==
  /\ UNCHANGED <<pvars, vvars>>
  /\ hpc = "loop"
  /\ hI = hCount
  /\ hpc' = "done"
  /\ UNCHANGED <<hCount, hPoints, hI, hBits, hReversed, hInverse>>

\* A call of radicalInverse_VdC on hBits.
ApplyRadicalInverse ==
  /\ UNCHANGED <<pvars, vvars>>
  /\ hReversed = NotComputed
  /\ hReversed' = ReverseBits(hBits)
  /\ hInverse' = radicalInverse_VdC(hBits)
  /\ UNCHANGED <<hpc, hCount, hPoints, hI, hBits>>

HammersleyNext == HammersleyStep \/ HammersleyReturn \/ ApplyRadicalInverse

HammersleyIdle ==
  /\ hpc = "idle"
  /\ hCount = 0
  /\ hPoints = <<>>
  /\ hI = 0
  /\ hBits = <<0, 0>>
  /\ hReversed = NotComputed
  /\ hInverse = NotComputed

PoissonIdle ==
  /\ pc = "idle"
  /\ requested = U32(0)
  /\ pointCount = U32(0)
  /\ isCircle = FALSE
  /\ newPointsCount = 0
  /\ minDistance = [neg |-> TRUE, num |-> 1, den |-> 1]
  /\ prng = U32(DefaultSeed)
  /\ cellSize = [num |-> 0, den |-> 1]
  /\ grid = EmptyGrid
  /\ samplePoints = <<>>
  /\ processList = <<>>
  /\ firstPoint = InvalidPoint
  /\ currentPoint = InvalidPoint
  /\ i = 0

(***************************************************************************)
(* Specifications: one call of one generator each.                         *)
(***************************************************************************)
Init == PoissonInit /\ VogelIdle /\ HammersleyIdle

Next == PoissonNext

\* A call of generatePoissonPoints.
Spec == Init /\ [][Next]_vars

\* The call runs on: it is one thread whose every step is taken.
FairSpec == Spec /\ WF_vars(Next)

VogelSpecInit == VogelInit /\ PoissonIdle /\ HammersleyIdle

\* A call of generateVogelPoints.
VogelSpec == VogelSpecInit /\ [][VogelNext]_vars

HammersleySpecInit == HammersleyInit /\ PoissonIdle /\ VogelIdle

\* A call of generateHammersleyPoints, and a call of radicalInverse_VdC.
HammersleySpec == HammersleySpecInit /\ [][HammersleyNext]_vars

(***************************************************************************)
(* Properties of generatePoissonPoints.                                    *)
(***************************************************************************)
\* The call has passed line 219: 点数量 holds the internal target.
Running == pc \in {"seed", "seedtest", "loop", "spawn", "done", "crashed"}

\* C1, as stated: at every point of the run and at return the output holds
\* at most as many points as the internal target.
C1_SizeWithinTarget ==
  Running => Len(samplePoints) <= ToInt(pointCount)

\* C1, amended: at every point of the run and at return the output holds at
\* most the internal target plus 新增点数量 points, since the pass entered
\* with size <= target adds up to 新增点数量 points before the next test.
C1_SizeWithinTargetPlusNew ==
  Running => Len(samplePoints) <= ToInt(pointCount) + newPointsCount

\* C1: a call returned target + 新增点数量 points, more than the target.
C1_Overshoot ==
  /\ pc = "done"
  /\ newPointsCount > 0
  /\ Len(samplePoints) = ToInt(pointCount) + newPointsCount

\* C2: in the returned sequence every two points at different positions are
\* at least 最小距离 apart.
C2_MinimumSeparation ==
  pc = "done" =>
    \A a, b \in 1..Len(samplePoints) :
      a # b => ~CloserThan(samplePoints[a], samplePoints[b], minDistance)

\* 2 * count modulo 2^32, by halves.
Doubled(u) ==
  <<(2 * u[1] + (2 * u[2]) \div TwoTo16) % TwoTo16, (2 * u[2]) % TwoTo16>>

\* t is pi / 4 * n truncated.
IsPi4Of(t, n) == t * Pi4Den <= n * Pi4Num /\ n * Pi4Num < (t + 1) * Pi4Den

\* C4, as stated: the target is 2 * pointCount, scaled by pi / 4 and
\* truncated exactly when the circle is filled.
C4_CircleTargetScaled ==
  Running =>
    IF isCircle
      THEN IsPi4Of(ToInt(pointCount), ToInt(Doubled(requested)))
      ELSE pointCount = Doubled(requested)

\* C4, amended: the target is 2 * pointCount modulo 2^32, scaled by pi / 4
\* and truncated exactly when the square is filled (是圆形 false); when the
\* circle is filled it stays 2 * pointCount.
C4_SquareTargetScaled ==
  Running =>
    IF ~isCircle
      THEN IsPi4Of(ToInt(pointCount), ToInt(Doubled(requested)))
      ELSE pointCount = Doubled(requested)

\* C4: a call for 2 points in the square runs with the target 3, and not 4.
C4_SquareScaled ==
  Running /\ ~isCircle /\ requested = U32(2) /\ pointCount = U32(3)

\* C5: with 新增点数量 = 0 and a non-zero target, the output is the first
\* point alone from its insertion on, the pass of the main loop leaves the
\* active list empty, and so the call returns exactly one point.
C5_NoChildrenSinglePoint ==
  (newPointsCount = 0 /\ pc \in {"loop", "spawn", "done"}
     /\ pointCount # U32(0)) =>
    /\ samplePoints = <<firstPoint>>
    /\ pc = "loop" => processList \in {<<>>, <<firstPoint>>}
    /\ pc \in {"spawn", "done"} => processList = <<>>

\* C5: a call with 新增点数量 = 0 returned its first point.
C5_Returned ==
  /\ pc = "done"
  /\ newPointsCount = 0
  /\ samplePoints = <<firstPoint>>
  /\ processList = <<>>

\* Mantissas that reach every value of uint32_t(randomFloat() * n), and the
\* least and the greatest mantissa.
MantissaProbes(n) ==
  {0, MantissaRange - 1}
    \cup {((j * MantissaRange) \div n) + 1 : j \in 1..(n - 1)}

\* C7: when a point is about to be removed from an active list of n points,
\* every index 0 .. n - 1 is the result of randomInt for some float the
\* generator can return.
C7_EveryIndexPossible ==
  (pc = "loop" /\ LoopCondition) =>
    LET n == Len(processList)
    IN  \A j \in 0..(n - 1) :
          \E m \in MantissaProbes(n) : ScaleToInt(m, PopBound(n)) = j

\* C8: the call ends (it returns, or the process dies).
C8_Terminates == <>(pc \in {"done", "crashed"})

\* The point is the content of its own cell.
StoredInGrid(p) ==
  /\ InsertInRange(grid, p)
  /\ LET g == imageToGrid(p, grid.cell) IN grid.cells[g.x][g.y] = p

\* C9: every point of the output is, at every later step, still stored in
\* its cell of the grid (so no insert met an occupied cell, and a cell holds
\* at most one accepted point).
C9_OnePointPerCell ==
  pc \in {"loop", "spawn", "done"} =>
    \A k \in 1..Len(samplePoints) : StoredInGrid(samplePoints[k])

\* C10: every insert addresses a cell inside the allocated grid: the cell
\* indices of every accepted point are in [0, ceil(1 / cellSize)).
C10_InsertInsideGrid ==
  \A k \in 1..Len(samplePoints) : InsertInRange(grid, samplePoints[k])

(***************************************************************************)
(* Properties of generateVogelPoints.                                      *)
(***************************************************************************)
\* C3, as stated: every returned point is in the unit circle when 是圆形 and
\* in the unit square otherwise.
C3_InSelectedRegion ==
  \A k \in 1..Len(vPoints) :
    IF vIsCircle THEN InCircleV(vPoints[k]) ELSE InRectangleV(vPoints[k])

\* Within 1 of the centre (0.5, 0.5).
InUnitDisc(p) ==
  /\ IsFinite(p)
  /\ (p.x - VogelCenter.x) * (p.x - VogelCenter.x)
       + (p.y - VogelCenter.y) * (p.y - VogelCenter.y) < VogelUnit * VogelUnit

\* C3, amended: every returned point is in the unit circle when 是圆形 and
\* 4 * 点数量 does not wrap (点数量 < 2^30); when 是圆形 is false it is within
\* 1 of the centre, not necessarily in the unit square.
C3_InCircleOrUnitDisc ==
  \A k \in 1..Len(vPoints) :
    /\ (vIsCircle /\ vCount[1] < 2^14) => InCircleV(vPoints[k])
    /\ ~vIsCircle => InUnitDisc(vPoints[k])

\* C3: a call with 是圆形 false returned a point outside the unit square and
\* within 1 of the centre.
C3_OutsideSquare ==
  /\ vpc = "done"
  /\ ~vIsCircle
  /\ \E k \in 1..Len(vPoints) :
       ~InRectangleV(vPoints[k]) /\ InUnitDisc(vPoints[k])

(***************************************************************************)
(* Properties of generateHammersleyPoints.                                 *)
(***************************************************************************)
\* Bit j of a uint32_t.
Bit(u, j) ==
  IF j < 16 THEN (u[2] \div 2^j) % 2 ELSE (u[1] \div 2^(j - 16)) % 2

\* The sum over k = j .. 15 of (bit top - k of u) * 2^k.
RECURSIVE MirroredHalf(_, _, _)
MirroredHalf(u, top, j) ==
  IF j > 15 THEN 0 ELSE Bit(u, top - j) * 2^j + MirroredHalf(u, top, j + 1)

\* The 32-bit reversal: bit j of the result is bit 31 - j of u.
Mirror(u) == <<MirroredHalf(u, 15, 0), MirroredHalf(u, 31, 0)>>

\* C6: the call returns 点数量 points; point i has x = i / 点数量 and
\* y = (the 32-bit reversal of i) / 2^32; for 点数量 = 4 the y values are
\* 0, 0.5, 0.25, 0.75 in index order; and the five swaps of
\* radicalInverse_VdC reverse the 32 bits of their input.
C6_HammersleyPoints ==
  /\ hpc = "done" => Len(hPoints) = hCount
  /\ \A k \in 1..Len(hPoints) :
       /\ hPoints[k].x = <<k - 1, hCount>>
       /\ hPoints[k].y = Mirror(U32(k - 1))
  /\ (hpc = "done" /\ hCount = 4) =>
       [k \in 1..4 |-> hPoints[k].y]
         = <<(<<0, 0>>), (<<2^15, 0>>), (<<2^14, 0>>), (<<2^15 + 2^14, 0>>)>>
  /\ hReversed # NotComputed => hReversed = Mirror(hBits)

\* C6: a call for 4 points returned, and radicalInverse_VdC was applied to
\* the default seed's 32 bits.
C6_FourPoints ==
  /\ hpc = "done"
  /\ hCount = 4
  /\ Len(hPoints) = 4
  /\ hBits = U32(DefaultSeed)
  /\ hReversed # NotComputed

====
